---- MODULE Spec2Model ----
(***************************************************************************)
(* NILTrack: the three sync entry points (cbb_tracker sync, espn_sync     *)
(* main, sync_all_boxscores main) writing one shared SQLite store          *)
(* (cbb_tracker.sqlite).  A run is a sequence of steps; every provider     *)
(* response is an input drawn when the run reads it.                       *)
(***************************************************************************)
EXTENDS Integers, Sequences, FiniteSets, TLC

(* ------------------------------ bounds -------------------------------- *)
MaxRuns == 2
MaxTeams == 2
MaxWork == 3

(* --------------------------- program constants ------------------------ *)
DUKE_ID == "150"
DefaultSeasonYear == 2026
NullYear == 0
NULL == "NULL"

(* ------------------------------ input sets ---------------------------- *)
RunSeasons == {2026}
EventSeasons == {NullYear, 2025, 2026}
GameIds == {"401", "402"}
Absent == << >>
Cells == {Absent, <<"7">>, <<"D", "N", "P">>}

VARIABLES schema, db, disk, entry, pc, season_year, runs,
          ti, nTeams, team, ei, nEvents, ev, shape, row, inserted, http, work,
          call

\* the state of a sync run and of the store
run_vars == <<schema, db, disk, entry, pc, season_year, runs,
              ti, nTeams, team, ei, nEvents, ev, shape, row, inserted, http, work>>

vars == <<run_vars, call>>

(* ------------------------------ text helpers -------------------------- *)
\* str.lower() on the strings the model uses
lower(s) ==
    CASE s = "Final" -> "final"
      [] s = "STATUS_FINAL" -> "status_final"
      [] s = "Scheduled" -> "scheduled"
      [] s = "STATUS_SCHEDULED" -> "status_scheduled"
      [] s = "Duke" -> "duke"
      [] s = "A" -> "a"
      [] s = "B" -> "b"
      [] OTHER -> s

DigitVal(c) ==
    CASE c = "0" -> 0 [] c = "1" -> 1 [] c = "2" -> 2 [] c = "3" -> 3
      [] c = "4" -> 4 [] c = "5" -> 5 [] c = "6" -> 6 [] c = "7" -> 7
      [] c = "8" -> 8 [] c = "9" -> 9 [] OTHER -> -1

RECURSIVE DecValue(_)
DecValue(s) ==
    IF s = << >> THEN 0 ELSE 10 * DecValue(SubSeq(s, 1, Len(s) - 1)) + DigitVal(s[Len(s)])

\* int(x) raises ValueError on text that is not a decimal number
IntRaises(s) == s = << >> \/ \E i \in 1..Len(s) : DigitVal(s[i]) < 0

\* int(row.get(key, 0)): an absent cell reads as the default 0
int_cell(c) == IF c = Absent THEN 0 ELSE DecValue(c)

int_cell_raises(c) == c # Absent /\ IntRaises(c)

(* ------------------------------ the store ----------------------------- *)
EmptyDb == [teams |-> {}, players |-> {}, games |-> {}, stats |-> {}]

\* CREATE TABLE IF NOT EXISTS: the first entry point to open the store decides
\* the columns and constraints of all four tables.
ensure_schema(s, who) == IF s = "none" THEN who ELSE s

TeamsHasConference(s) == s = "all"
GamesHasSeasonYear(s) == s \in {"espn", "all"}
PlayersUnique(s) == s \in {"cbb", "espn"}

\* variant: a later writer replaces the row
InsertOrReplaceTeam(T, r) == {x \in T : x.team_id # r.team_id} \cup {r}

\* INSERT OR IGNORE INTO teams
InsertOrIgnoreTeam(T, r) ==
    IF \E x \in T : x.team_id = r.team_id THEN T ELSE T \cup {r}

\* INSERT OR IGNORE INTO players: ignored on a conflict with the primary key or,
\* where the table has it, with UNIQUE(player_name, team_id)
InsertOrIgnorePlayer(P, r, uniq) ==
    IF \E x \in P : \/ x.player_id = r.player_id
                    \/ (uniq /\ x.player_name = r.player_name /\ x.team_id = r.team_id)
    THEN P ELSE P \cup {r}

\* variant: the first row written for a game is kept
InsertOrIgnoreGame(G, r) ==
    IF \E x \in G : x.game_id = r.game_id THEN G ELSE G \cup {r}

\* INSERT OR REPLACE INTO games
InsertOrReplaceGame(G, r) == {x \in G : x.game_id # r.game_id} \cup {r}

\* variant: a plain INSERT into a table without the composite primary key
InsertLine(S, r) == S \cup {r}

\* variant: the first line written for a pair is kept
InsertOrIgnoreLine(S, r) ==
    IF \E x \in S : x.player_id = r.player_id /\ x.game_id = r.game_id THEN S ELSE S \cup {r}

\* INSERT OR REPLACE INTO player_game_stats
InsertOrReplaceLine(S, r) ==
    {x \in S : ~(x.player_id = r.player_id /\ x.game_id = r.game_id)} \cup {r}

\* UPDATE games SET status='post' WHERE lower(status) IN ('final','status_final')
NormalizeStatus(G) ==
    {IF lower(x.status) \in {"final", "status_final"} THEN [x EXCEPT !.status = "post"] ELSE x
       : x \in G}

(* --------------------------- provider responses ----------------------- *)
\* status.type objects of an ESPN schedule event
StatusTypes ==
    { [state |-> "post", description |-> "Final", name |-> "STATUS_FINAL"],
      [state |-> "pre", description |-> "Scheduled", name |-> "STATUS_SCHEDULED"] }

\* events of an ESPN schedule response; season = NullYear: no season.year in the event
EspnEvents ==
    { [id |-> g, date |-> "2025-11-04", home |-> "Duke", away |-> "UNC", type |-> t, season |-> y]
        : g \in GameIds, t \in StatusTypes, y \in EventSeasons }

\* athlete rows of an ESPN box score, with the team object of the nesting that holds them
EspnRows ==
    { [team |-> DUKE_ID, name |-> n, id |-> i, pts |-> c] : n \in {"", "A"}, i \in {"", "7"}, c \in Cells }
      \cup { [team |-> "2", name |-> "A", id |-> "7", pts |-> <<"7">>] }

\* entries of the ESPN team catalog
CatalogTeams ==
    { [tid |-> DUKE_ID, name |-> "Duke Blue Devils", slug |-> "duke", conf |-> "ACC"],
      [tid |-> "2", name |-> "Auburn Tigers", slug |-> "aub", conf |-> "SEC"] }

\* team.displayName of the TEAM_INFO response ("": missing)
TeamInfoNames == {"", "Duke"}

\* players.yaml: the watchlist teams and the tracked names
CfgTeams == {"Duke"}
CfgNames == {"A"}

\* games of an NCAA schedule response (id "": no gameID)
CbbGames ==
    { [id |-> g, date |-> "2025-11-04", home |-> "Duke", away |-> "UNC", status |-> st]
        : g \in GameIds \cup {""}, st \in {"final", "live"} }

\* roster rows of an NCAA box score
CbbRows == { [name |-> n, personId |-> i, pts |-> c] : n \in {"", "A"}, i \in {"", "7"}, c \in Cells }

NoEv == [game_id |-> "", date |-> "", home |-> "", away |-> "", status |-> "", state |-> "", season |-> NullYear]
NoRow == [player_id |-> "", player_name |-> "", team_id |-> "", cell |-> Absent]

\* the locals sync_all_boxscores / espn_sync bind from one schedule event
espn_event(e) ==
    [game_id |-> e.id, date |-> e.date, home |-> e.home, away |-> e.away,
     status |-> IF e.type.description # "" THEN e.type.description
                ELSE IF e.type.name # "" THEN e.type.name ELSE lower(e.type.state),
     state |-> lower(e.type.state), season |-> e.season]

\* the dict cbb_tracker sync appends to games for one schedule entry
cbb_game(g) ==
    [game_id |-> g.id, date |-> g.date, home |-> g.home, away |-> g.away,
     status |-> g.status, state |-> "", season |-> NullYear]

\* variant: the season check is dropped
SeasonNeverMismatch(g, y) == FALSE

\* if ev_season and int(ev_season) != int(season_year): continue
SeasonMismatch(g, y) == g.season # NullYear /\ g.season # y

game_row(g, y) ==
    [game_id |-> g.game_id, date |-> g.date, home_team |-> g.home, away_team |-> g.away,
     status |-> g.status, season_year |-> y]

player_row(r) == [player_id |-> r.player_id, player_name |-> r.player_name, team_id |-> r.team_id]

line_row(r, g) == [player_id |-> r.player_id, game_id |-> g.game_id, pts |-> int_cell(r.cell)]

\* pid = str(ath.get("id") or nm)
espn_pid(r) == IF r.id # "" THEN r.id ELSE r.name

\* pid = str(row.get("personId") or row.get("id") or f"{nm}|{tid}")
cbb_pid(r, tid) == IF r.personId # "" THEN r.personId ELSE r.name \o "|" \o tid

\* team_to_slug over the schools index the run fetched
slug_of(t) == lower(t)

(* ------------------------------- run frame ---------------------------- *)
Ended == {"idle", "done", "crashed", "cfgexit"}

ResetLocals ==
    /\ ti' = 0 /\ nTeams' = 0 /\ team' = ""
    /\ ei' = 0 /\ nEvents' = 0 /\ ev' = NoEv /\ shape' = "A" /\ row' = NoRow /\ inserted' = 0

\* an uncaught exception ends the process: the open transaction is rolled back
Crash ==
    /\ pc' = "crashed"
    /\ db' = disk
    /\ UNCHANGED <<schema, disk, entry, season_year, call, runs, work>>
    /\ ResetLocals

\* no call of a helper function is in progress
NoCall == [fn |-> "none"]

\* before any run: an empty store, no entry point started
RunIdle ==
    /\ schema = "none" /\ db = EmptyDb /\ disk = EmptyDb
    /\ entry = "none" /\ pc = "idle" /\ season_year = DefaultSeasonYear /\ runs = 0
    /\ ti = 0 /\ nTeams = 0 /\ team = ""
    /\ ei = 0 /\ nEvents = 0 /\ ev = NoEv /\ shape = "A" /\ row = NoRow /\ inserted = 0
    /\ http = "none" /\ work = 0

Init == RunIdle /\ call = NoCall

(* ------------------- sync_all_boxscores.py: main ---------------------- *)
\* argument parsing, season_to_year, connect, ensure_schema
AllStart ==
    /\ pc \in Ended /\ runs < MaxRuns
    /\ runs' = runs + 1 /\ entry' = "all" /\ pc' = "catalog"
    /\ season_year' \in RunSeasons
    /\ schema' = ensure_schema(schema, "all")
    /\ http' = "none"
    /\ ResetLocals
    /\ UNCHANGED <<db, disk, work, call>>

\* data = j(s, TEAMS_URL), outside any try
AllCatalog ==
    /\ pc = "catalog" /\ entry = "all"
    /\ \/ /\ http' = "fail" /\ Crash
       \/ /\ http' = "ok"
          /\ \E n \in 0..MaxTeams : nTeams' = n
          /\ ti' = 1 /\ pc' = "team"
          /\ UNCHANGED <<schema, db, disk, entry, season_year, call, inserted, runs, team,
                         ei, nEvents, ev, shape, row, work>>

\* loop header over teams; INSERT OR IGNORE INTO teams(...conference); commit
AllTeam ==
    /\ pc = "team" /\ entry = "all"
    /\ IF ti > nTeams
       THEN /\ pc' = "report"
            /\ UNCHANGED <<schema, db, disk, entry, season_year, call, inserted, runs, ti, nTeams, team,
                           ei, nEvents, ev, shape, row, http, work>>
       ELSE \E t \in CatalogTeams :
              IF ~TeamsHasConference(schema)
              THEN Crash /\ UNCHANGED http
              ELSE /\ db' = [db EXCEPT !.teams = InsertOrIgnoreTeam(@,
                                [team_id |-> t.tid, team_name |-> t.name, team_slug |-> t.slug,
                                 conference |-> t.conf])]
                   /\ disk' = db'
                   /\ team' = t.tid /\ pc' = "sched"
                   /\ UNCHANGED <<schema, entry, season_year, call, inserted, runs, ti, nTeams,
                                  ei, nEvents, ev, shape, row, http, work>>

\* variant: the schedule request is not wrapped in try/except
AllSchedUncaught ==
    /\ pc = "sched" /\ entry = "all"
    /\ \/ /\ http' = "fail" /\ Crash
       \/ /\ http' = "ok"
          /\ \E n \in 0..(MaxWork - work) : nEvents' = n /\ work' = work + n
          /\ ei' = 1 /\ inserted' = 0 /\ pc' = "event"
          /\ UNCHANGED <<schema, db, disk, entry, season_year, call, runs, ti, nTeams, team,
                         ev, shape, row>>

\* sched = j(s, TEAM_SCHED...) inside try/except ... continue
AllSched ==
    /\ pc = "sched" /\ entry = "all"
    /\ \/ /\ http' = "fail"
          /\ ti' = ti + 1 /\ pc' = "team" /\ team' = ""
          /\ UNCHANGED <<nEvents, ei, inserted, work>>
       \/ /\ http' = "ok"
          /\ \E n \in 0..(MaxWork - work) : nEvents' = n /\ work' = work + n
          /\ ei' = 1 /\ inserted' = 0 /\ pc' = "event"
          /\ UNCHANGED <<ti, team>>
    /\ UNCHANGED <<schema, db, disk, entry, season_year, call, runs, nTeams, ev, shape, row>>

\* loop header over events: state filter, season filter, INSERT OR REPLACE INTO games; commit
AllEvent ==
    /\ pc = "event" /\ entry = "all"
    /\ IF ei > nEvents
       THEN /\ ti' = ti + 1 /\ pc' = "team" /\ team' = ""
            /\ ei' = 0 /\ nEvents' = 0 /\ ev' = NoEv
            /\ UNCHANGED <<schema, db, disk, entry, season_year, call, inserted, runs, nTeams,
                           shape, row, http, work>>
       ELSE \E e \in EspnEvents :
              LET g == espn_event(e) IN
              IF g.state # "post" \/ SeasonMismatch(g, season_year)
              THEN /\ ei' = ei + 1 /\ ev' = g
                   /\ UNCHANGED <<schema, db, disk, entry, pc, season_year, call, inserted, runs, ti, nTeams,
                                  team, nEvents, shape, row, http, work>>
              ELSE IF ~GamesHasSeasonYear(schema)
              THEN Crash /\ UNCHANGED http
              ELSE /\ db' = [db EXCEPT !.games = InsertOrReplaceGame(@, game_row(g, season_year))]
                   /\ disk' = db'
                   /\ ev' = g /\ pc' = "box"
                   /\ UNCHANGED <<schema, entry, season_year, call, inserted, runs, ti, nTeams, team,
                                  ei, nEvents, shape, row, http, work>>

\* summ = j(s, EVENT_SUM...) inside try/except ... continue
AllBox ==
    /\ pc = "box" /\ entry = "all"
    /\ \/ /\ http' = "fail"
          /\ ei' = ei + 1 /\ pc' = "event"
          /\ UNCHANGED <<shape, ev>>
       \/ /\ http' = "ok"
          /\ shape' = "A" /\ pc' = "rows"
          /\ UNCHANGED <<ei, ev>>
    /\ UNCHANGED <<schema, db, disk, entry, season_year, call, inserted, runs, ti, nTeams, team, nEvents, row, work>>

\* parse_row: int(m.get("points") or m.get("PTS") or 0)
parse_row_raises(c) == int_cell_raises(c)

\* the two nested loops over box["teams"] then box["players"], and the head of record_row
AllRows ==
    /\ pc = "rows" /\ entry = "all"
    /\ \/ /\ work < MaxWork
          /\ \E r \in EspnRows, sh \in {"A", "B"} :
               /\ (shape = "B" => sh = "B")
               /\ IF r.name = ""
                  THEN /\ shape' = sh
                       /\ UNCHANGED <<schema, db, disk, entry, pc, season_year, call, inserted, runs, ti, nTeams,
                                      team, ei, nEvents, ev, row, http>>
                       /\ work' = work + 1
                  ELSE IF parse_row_raises(r.pts)
                  THEN Crash /\ UNCHANGED http
                  ELSE /\ shape' = sh
                       /\ row' = [player_id |-> espn_pid(r), player_name |-> r.name,
                                  team_id |-> r.team, cell |-> r.pts]
                       /\ pc' = "player"
                       /\ UNCHANGED <<schema, db, disk, entry, season_year, call, inserted, runs, ti, nTeams,
                                      team, ei, nEvents, ev, http>>
                       /\ work' = work + 1
       \/ /\ ei' = ei + 1 /\ pc' = "event" /\ shape' = "A"
          /\ UNCHANGED <<schema, db, disk, entry, season_year, call, inserted, runs, ti, nTeams,
                         team, nEvents, ev, row, http, work>>

\* record_row: INSERT OR IGNORE INTO players (no commit)
AllPlayer ==
    /\ pc = "player" /\ entry = "all"
    /\ db' = [db EXCEPT !.players = InsertOrIgnorePlayer(@, player_row(row), PlayersUnique(schema))]
    /\ pc' = "line"
    /\ UNCHANGED <<schema, disk, entry, season_year, call, inserted, runs, ti, nTeams, team,
                   ei, nEvents, ev, shape, row, http, work>>

\* record_row: INSERT OR REPLACE INTO player_game_stats (no commit); inserted += 1
AllLine ==
    /\ pc = "line" /\ entry = "all"
    /\ db' = [db EXCEPT !.stats = InsertOrReplaceLine(@, line_row(row, ev))]
    /\ pc' = "rows" /\ row' = NoRow /\ inserted' = inserted + 1
    /\ UNCHANGED <<schema, disk, entry, season_year, call, runs, ti, nTeams, team,
                   ei, nEvents, ev, shape, http, work>>

\* after the [done] report: UPDATE games SET status='post' ...; commit
AllNormalize ==
    /\ pc = "report" /\ entry = "all"
    /\ db' = [db EXCEPT !.games = NormalizeStatus(@)]
    /\ disk' = db'
    /\ pc' = "done"
    /\ ti' = 0 /\ nTeams' = 0
    /\ UNCHANGED <<schema, entry, season_year, call, inserted, runs, team, ei, nEvents, ev, shape, row, http, work>>

(* ----------------- cbb_tracker.py / espn_sync.py: writes -------------- *)
\* INSERT OR REPLACE INTO games(game_id,date,home_team,away_team,status): the replaced
\* row is deleted, so a season_year column, where the table has one, is left NULL
cbb_upsert_game(G, g) == InsertOrReplaceGame(G, game_row(g, NullYear))

\* INSERT OR REPLACE INTO games(game_id,date,home_team,away_team,status,season_year)
espn_upsert_game(G, g, y) == InsertOrReplaceGame(G, game_row(g, y))

\* upsert_player: INSERT OR IGNORE INTO players; commit
upsert_player ==
    /\ pc = "player" /\ entry \in {"cbb", "espn"}
    /\ db' = [db EXCEPT !.players = InsertOrIgnorePlayer(@, player_row(row), PlayersUnique(schema))]
    /\ disk' = db'
    /\ pc' = "line"
    /\ UNCHANGED <<schema, entry, season_year, call, inserted, runs, ti, nTeams, team,
                   ei, nEvents, ev, shape, row, http, work>>

\* upsert_line: int(row.get(...)) for every numeric cell, INSERT OR REPLACE; commit
upsert_line ==
    /\ pc = "line" /\ entry \in {"cbb", "espn"}
    /\ IF int_cell_raises(row.cell)
       THEN Crash /\ UNCHANGED http
       ELSE /\ db' = [db EXCEPT !.stats = InsertOrReplaceLine(@, line_row(row, ev))]
            /\ disk' = db'
            /\ pc' = "rows" /\ row' = NoRow
            /\ UNCHANGED <<schema, entry, season_year, call, inserted, runs, ti, nTeams, team,
                           ei, nEvents, ev, shape, http, work>>

(* ------------------------- espn_sync.py: main ------------------------- *)
\* cfg = yaml.safe_load(open(CFG)); season_to_year; db()
EspnStart ==
    /\ pc \in Ended /\ runs < MaxRuns
    /\ runs' = runs + 1 /\ entry' = "espn"
    /\ http' = "none"
    /\ ResetLocals
    /\ UNCHANGED <<db, disk, work, call>>
    /\ \/ /\ pc' = "cfgexit"
          /\ UNCHANGED <<schema, season_year>>
       \/ /\ pc' = "catalog"
          /\ season_year' \in RunSeasons
          /\ schema' = ensure_schema(schema, "espn")

\* ti = j(TEAM_INFO...), outside any try; INSERT OR IGNORE INTO teams; commit
EspnTeamInfo ==
    /\ pc = "catalog" /\ entry = "espn"
    /\ \/ /\ http' = "fail" /\ Crash
       \/ /\ http' = "ok"
          /\ \E dn \in TeamInfoNames :
               db' = [db EXCEPT !.teams = InsertOrIgnoreTeam(@,
                         [team_id |-> DUKE_ID,
                          team_name |-> IF dn # "" THEN dn ELSE "Duke Blue Devils",
                          team_slug |-> "duke", conference |-> NULL])]
          /\ disk' = db'
          /\ team' = DUKE_ID /\ pc' = "sched"
          /\ UNCHANGED <<schema, entry, season_year, call, inserted, runs, ti, nTeams,
                         ei, nEvents, ev, shape, row, work>>

\* sched = j(TEAM_SCHED...), outside any try
EspnSched ==
    /\ pc = "sched" /\ entry = "espn"
    /\ \/ /\ http' = "fail" /\ Crash
       \/ /\ http' = "ok"
          /\ \E n \in 0..(MaxWork - work) : nEvents' = n /\ work' = work + n
          /\ ei' = 1 /\ pc' = "event"
          /\ UNCHANGED <<schema, db, disk, entry, season_year, call, inserted, runs, ti, nTeams, team,
                         ev, shape, row>>

\* loop header over events: season filter, upsert_game, state filter
EspnEvent ==
    /\ pc = "event" /\ entry = "espn"
    /\ IF ei > nEvents
       THEN /\ pc' = "done" /\ team' = "" /\ ei' = 0 /\ nEvents' = 0 /\ ev' = NoEv
            /\ UNCHANGED <<schema, db, disk, entry, season_year, call, inserted, runs, ti, nTeams,
                           shape, row, http, work>>
       ELSE \E e \in EspnEvents :
              LET g == espn_event(e) IN
              IF SeasonMismatch(g, season_year)
              THEN /\ ei' = ei + 1 /\ ev' = g
                   /\ UNCHANGED <<schema, db, disk, entry, pc, season_year, call, inserted, runs, ti, nTeams,
                                  team, nEvents, shape, row, http, work>>
              ELSE IF ~GamesHasSeasonYear(schema)
              THEN Crash /\ UNCHANGED http
              ELSE /\ db' = [db EXCEPT !.games = espn_upsert_game(@, g, season_year)]
                   /\ disk' = db'
                   /\ ev' = g
                   /\ IF g.state # "post"
                      THEN ei' = ei + 1 /\ UNCHANGED pc
                      ELSE pc' = "box" /\ UNCHANGED ei
                   /\ UNCHANGED <<schema, entry, season_year, call, inserted, runs, ti, nTeams, team,
                                  nEvents, shape, row, http, work>>

\* variant: the summary request is not wrapped in try/except
EspnBoxUncaught ==
    /\ pc = "box" /\ entry = "espn"
    /\ \/ /\ http' = "fail" /\ Crash
       \/ /\ http' = "ok"
          /\ shape' = "A" /\ pc' = "rows"
          /\ UNCHANGED <<schema, db, disk, entry, season_year, call, inserted, runs, ti, nTeams, team,
                         ei, nEvents, ev, row, work>>

\* summ = j(EVENT_SUM...) inside try/except ... continue
EspnBox ==
    /\ pc = "box" /\ entry = "espn"
    /\ \/ /\ http' = "fail"
          /\ ei' = ei + 1 /\ pc' = "event"
          /\ UNCHANGED <<shape, ev>>
       \/ /\ http' = "ok"
          /\ shape' = "A" /\ pc' = "rows"
          /\ UNCHANGED <<ei, ev>>
    /\ UNCHANGED <<schema, db, disk, entry, season_year, call, inserted, runs, ti, nTeams, team, nEvents, row, work>>

\* tracked = {p["name"].lower() ...}; if nm.lower() in tracked
tracked(nm) == lower(nm) \in {lower(n) : n \in CfgNames}

\* the loops over box["teams"] then box["players"] (Duke side only), and the head of handle_rows
EspnRows_ ==
    /\ pc = "rows" /\ entry = "espn"
    /\ \/ /\ work < MaxWork /\ work' = work + 1
          /\ \E r \in EspnRows, sh \in {"A", "B"} :
               /\ (shape = "B" => sh = "B")
               /\ shape' = sh
               /\ IF r.team # DUKE_ID \/ r.name = "" \/ ~tracked(r.name)
                  THEN UNCHANGED <<pc, row>>
                  ELSE /\ row' = [player_id |-> espn_pid(r), player_name |-> r.name,
                                  team_id |-> DUKE_ID, cell |-> r.pts]
                       /\ pc' = "player"
               /\ UNCHANGED <<ei, ev>>
       \/ /\ ei' = ei + 1 /\ pc' = "event" /\ shape' = "A"
          /\ UNCHANGED <<row, ev, work>>
    /\ UNCHANGED <<schema, db, disk, entry, season_year, call, inserted, runs, ti, nTeams, team, nEvents, http>>

(* ------------------------- cbb_tracker.py: sync ----------------------- *)
\* load_cfg (SystemExit when players.yaml is missing); db()
CbbStart ==
    /\ pc \in Ended /\ runs < MaxRuns
    /\ runs' = runs + 1 /\ entry' = "cbb"
    /\ http' = "none"
    /\ ResetLocals
    /\ UNCHANGED <<db, disk, work, season_year, call>>
    /\ \/ /\ pc' = "cfgexit"
          /\ UNCHANGED schema
       \/ /\ pc' = "catalog"
          /\ schema' = ensure_schema(schema, "cbb")

\* index = schools_index(), outside any try; team_map from the watchlist
CbbIndex ==
    /\ pc = "catalog" /\ entry = "cbb"
    /\ \/ /\ http' = "fail" /\ Crash
       \/ /\ http' = "ok"
          /\ \E n \in 0..MaxTeams : nTeams' = n
          /\ ti' = 1 /\ pc' = "team"
          /\ UNCHANGED <<schema, db, disk, entry, season_year, call, inserted, runs, team,
                         ei, nEvents, ev, shape, row, work>>

\* save_team: INSERT OR IGNORE INTO teams(team_id,team_name,team_slug); commit
save_team(T, team_name, slug) ==
    InsertOrIgnoreTeam(T, [team_id |-> slug, team_name |-> team_name, team_slug |-> slug,
                           conference |-> NULL])

\* loop header over team_map: team_to_slug, save_team
CbbTeam ==
    /\ pc = "team" /\ entry = "cbb"
    /\ IF ti > nTeams
       THEN /\ pc' = "done" /\ ti' = 0 /\ nTeams' = 0
            /\ UNCHANGED <<schema, db, disk, entry, season_year, call, inserted, runs, team,
                           ei, nEvents, ev, shape, row, http, work>>
       ELSE \E t \in CfgTeams, found \in BOOLEAN :
              IF ~found
              THEN /\ ti' = ti + 1
                   /\ UNCHANGED <<schema, db, disk, entry, pc, season_year, call, inserted, runs, nTeams, team,
                                  ei, nEvents, ev, shape, row, http, work>>
              ELSE /\ db' = [db EXCEPT !.teams = save_team(@, t, slug_of(t))]
                   /\ disk' = db'
                   /\ team' = slug_of(t) /\ pc' = "sched"
                   /\ UNCHANGED <<schema, entry, season_year, call, inserted, runs, ti, nTeams,
                                  ei, nEvents, ev, shape, row, http, work>>

\* team_schedule: the first path that answers with a non-empty document, else {}
team_schedule(r1, r2) == r1 = "ok" \/ r2 = "ok"

\* sched = team_schedule(...) or {}: every exception is swallowed
CbbSched ==
    /\ pc = "sched" /\ entry = "cbb"
    /\ \E r1 \in {"fail", "empty", "ok"}, r2 \in {"fail", "empty", "ok"} :
         IF team_schedule(r1, r2)
         THEN /\ http' = "ok"
              /\ \E n \in 0..(MaxWork - work) : nEvents' = n /\ work' = work + n
         ELSE /\ http' = IF r2 = "fail" THEN "fail" ELSE "ok"
              /\ nEvents' = 0 /\ UNCHANGED work
    /\ ei' = 1 /\ pc' = "event"
    /\ UNCHANGED <<schema, db, disk, entry, season_year, call, inserted, runs, ti, nTeams, team, ev, shape, row>>

\* loop over games: entries without an id were dropped; upsert_game
CbbEvent ==
    /\ pc = "event" /\ entry = "cbb"
    /\ IF ei > nEvents
       THEN /\ ti' = ti + 1 /\ pc' = "team" /\ team' = ""
            /\ ei' = 0 /\ nEvents' = 0 /\ ev' = NoEv
            /\ UNCHANGED <<schema, db, disk, entry, season_year, call, inserted, runs, nTeams,
                           shape, row, http, work>>
       ELSE \E e \in CbbGames :
              LET g == cbb_game(e) IN
              IF g.game_id = ""
              THEN /\ ei' = ei + 1 /\ ev' = g
                   /\ UNCHANGED <<schema, db, disk, entry, pc, season_year, call, inserted, runs, ti, nTeams,
                                  team, nEvents, shape, row, http, work>>
              ELSE /\ db' = [db EXCEPT !.games = cbb_upsert_game(@, g)]
                   /\ disk' = db'
                   /\ ev' = g /\ pc' = "box"
                   /\ UNCHANGED <<schema, entry, season_year, call, inserted, runs, ti, nTeams, team,
                                  ei, nEvents, shape, row, http, work>>

\* box = game_box(...) inside try/except ... continue
CbbBox ==
    /\ pc = "box" /\ entry = "cbb"
    /\ \/ /\ http' = "fail"
          /\ ei' = ei + 1 /\ pc' = "event"
          /\ UNCHANGED <<shape, ev>>
       \/ /\ http' = "ok"
          /\ shape' = "A" /\ pc' = "rows"
          /\ UNCHANGED <<ei, ev>>
    /\ UNCHANGED <<schema, db, disk, entry, season_year, call, inserted, runs, ti, nTeams, team, nEvents, row, work>>

\* any(nm.lower()==want.lower() for want in names)
wanted(nm) == \E want \in CfgNames : lower(nm) = lower(want)

\* the loop over the home and away rosters
CbbRows_ ==
    /\ pc = "rows" /\ entry = "cbb"
    /\ \/ /\ work < MaxWork /\ work' = work + 1
          /\ \E r \in CbbRows :
               /\ IF ~wanted(r.name)
                  THEN UNCHANGED <<pc, row>>
                  ELSE /\ row' = [player_id |-> cbb_pid(r, team), player_name |-> r.name,
                                  team_id |-> team, cell |-> r.pts]
                       /\ pc' = "player"
               /\ UNCHANGED <<ei, ev>>
       \/ /\ ei' = ei + 1 /\ pc' = "event"
          /\ UNCHANGED <<row, ev, work>>
    /\ UNCHANGED <<schema, db, disk, entry, season_year, call, inserted, runs, ti, nTeams, team, nEvents,
                   shape, http>>

Next ==
    \/ AllStart \/ AllCatalog \/ AllTeam \/ AllSched \/ AllEvent \/ AllBox
    \/ AllRows \/ AllPlayer \/ AllLine \/ AllNormalize
    \/ EspnStart \/ EspnTeamInfo \/ EspnSched \/ EspnEvent \/ EspnBox \/ EspnRows_
    \/ CbbStart \/ CbbIndex \/ CbbTeam \/ CbbSched \/ CbbEvent \/ CbbBox \/ CbbRows_
    \/ upsert_player \/ upsert_line

Spec == Init /\ [][Next]_vars

(* ------------------------------- properties --------------------------- *)
\* lower(g.status) IN ('post','final','status_final'): the statuses the queries count as completed
Completed(st) == lower(st) \in {"post", "final", "status_final"}

SameLine(a, b) == a.player_id = b.player_id /\ a.game_id = b.game_id

\* C1: the store never holds two player_game_stats rows for one (player_id, game_id),
\* in the connection's view or on disk, whatever runs came before.
C1_OneLinePerPlayerGame ==
    /\ \A a, b \in db.stats : SameLine(a, b) => a = b
    /\ \A a, b \in disk.stats : SameLine(a, b) => a = b

\* sync_all_boxscores has recorded two lines in one team's pass and the store holds one:
\* both were for the same (player_id, game_id)
C1_Witness ==
    entry = "all" /\ pc = "rows" /\ inserted = 2 /\ Cardinality(db.stats) = 1

\* C2: every stat line has a players row with its player_id and a games row with its game_id.
C2_LinesReferencePlayerAndGame ==
    \A l \in db.stats :
        /\ \E q \in db.players : q.player_id = l.player_id
        /\ \E g \in db.games : g.game_id = l.game_id

\* C3: writing the line of a pair that is already stored keeps the number of lines, leaves
\* exactly the values of the latest ingestion under that pair, and changes nothing at all
\* when the values are the ones already stored.
C3_ReingestOverwrites ==
    [][ (pc = "line" /\ pc' = "rows") =>
          LET old == {x \in db.stats : x.player_id = row.player_id /\ x.game_id = ev.game_id}
              new == {x \in db'.stats : x.player_id = row.player_id /\ x.game_id = ev.game_id}
          IN  /\ new = {[player_id |-> row.player_id, game_id |-> ev.game_id,
                         pts |-> int_cell(row.cell)]}
              /\ old # {} => Cardinality(db'.stats) = Cardinality(db.stats)
              /\ old = new => db' = db ]_vars

\* the line of the current game was ingested twice and the store holds it once, with 7 points
C3_Witness ==
    /\ entry = "all" /\ inserted = 2
    /\ \E x \in db.stats : db.stats = {x} /\ x.pts = 7 /\ x.game_id = ev.game_id

\* C4: every stat line belongs to a game whose stored status is a completed one.
C4_LinesOnlyForCompletedGames ==
    \A l \in db.stats : \A g \in db.games : g.game_id = l.game_id => Completed(g.status)

\* C5: in an espn_sync or sync_all_boxscores run for season Y, reading an event whose own
\* season year is present and differs from Y writes nothing, requests nothing and leaves the
\* run at the loop header; every games row such a run inserts carries season_year = Y.
C5_SeasonFilter ==
    [][ (entry' \in {"espn", "all"} /\ pc = "event") =>
          /\ (ev' # NoEv /\ ev'.season # NullYear /\ ev'.season # season_year)
                => (db' = db /\ disk' = disk /\ http' = http /\ pc' = "event")
          /\ \A r \in db'.games \ db.games : r.season_year = season_year ]_vars

\* a completed event of another season was read and skipped: no row for it, no request
C5_Witness ==
    /\ entry \in {"espn", "all"} /\ pc = "event"
    /\ ev.state = "post" /\ ev.season = 2025 /\ season_year = 2026
    /\ ~ \E g \in db.games : g.game_id = ev.game_id

\* C6: when the box-score request of an event fails, the run is next at the loop header
\* for the following event of the same schedule, with the store untouched.
C6_BoxFailureSkipsEvent ==
    [][ (pc = "box" /\ http' = "fail") =>
          /\ pc' = "event" /\ ei' = ei + 1 /\ nEvents' = nEvents
          /\ ti' = ti /\ nTeams' = nTeams /\ team' = team
          /\ db' = db /\ disk' = disk ]_vars

\* the box score of the first event failed and the run is at the second event's request,
\* that event's games row written
C6_Witness ==
    /\ pc = "box" /\ ei = 2 /\ http = "fail"
    /\ \E g \in disk.games : g.game_id = ev.game_id

\* C7: in a multi-team run (sync_all_boxscores, cbb_tracker sync), when a team's schedule
\* request fails the team's row is on disk, nothing is written for the team, no event of
\* it is processed and the run goes on with the next team.
C7_ScheduleFailureIsolated ==
    [][ (pc = "sched" /\ entry \in {"all", "cbb"} /\ http' = "fail") =>
          /\ \E r \in disk'.teams : r.team_id = team
          /\ db' = db /\ disk' = disk /\ nTeams' = nTeams
          /\ \/ pc' = "team" /\ ti' = ti + 1
             \/ pc' = "event" /\ ti' = ti /\ nEvents' = 0 ]_vars

\* the first team's schedule failed and the second team has been inserted
C7_Witness ==
    /\ entry = "all" /\ runs = 1 /\ work = 0
    /\ pc = "sched" /\ ti = 2 /\ http = "fail"
    /\ \E r \in disk.teams : r.team_id = team

\* C8: no run stops on an uncaught error before its final report.
C8_RunReachesReport == pc # "crashed"

\* C9: a teams or players row on disk keeps all its fields and is never deleted, and no
\* second row appears under its key.
C9_FirstWriterWins ==
    [][ /\ \A r \in disk.teams :
              r \in disk'.teams /\ \A x \in disk'.teams : x.team_id = r.team_id => x = r
        /\ \A r \in disk.players :
              r \in disk'.players /\ \A x \in disk'.players : x.player_id = r.player_id => x = r
      ]_vars

\* espn_sync, which supplies no conference, ran over the Duke row sync_all_boxscores wrote
C9_Witness ==
    /\ entry = "espn" /\ pc = "sched"
    /\ \E r \in disk.teams : r.team_id = DUKE_ID /\ r.conference = "ACC"

MaxSeasonLen == 7
Reject == -1
FallbackYear == 2026

\* the characters season strings are made of here
SeasonChars == {"2", "0", "5", "6", "-", " "}
SeasonStrings == UNION { [1..n -> SeasonChars] : n \in 0..MaxSeasonLen }

IsDigit(c) == DigitVal(c) >= 0
IsSpace(c) == c = " "

\* \s* from position i: the position of the first character that is not white space
RECURSIVE SkipSpace(_, _)
SkipSpace(s, i) == IF i <= Len(s) /\ IsSpace(s[i]) THEN SkipSpace(s, i + 1) ELSE i

\* \d{n} at position i
DigitsAt(s, i, n) == i + n - 1 <= Len(s) /\ \A k \in i..(i + n - 1) : IsDigit(s[k])

\* re.match(r"^\s*(\d{4})\s*-\s*(\d{2})\s*$", s)
RangeMatch(s) ==
    LET a == SkipSpace(s, 1)
        b == SkipSpace(s, a + 4)
        c == SkipSpace(s, b + 1)
        d == SkipSpace(s, c + 2)
    IN  /\ DigitsAt(s, a, 4)
        /\ b <= Len(s) /\ s[b] = "-"
        /\ DigitsAt(s, c, 2)
        /\ d = Len(s) + 1

\* re.match(r"^\s*(\d{4})\s*$", s)
YearMatch(s) ==
    LET a == SkipSpace(s, 1) IN DigitsAt(s, a, 4) /\ SkipSpace(s, a + 4) = Len(s) + 1

\* int(m.group(1)) of the two anchored patterns
Group1(s) == LET a == SkipSpace(s, 1) IN DecValue(SubSeq(s, a, a + 3))

\* sync_all_boxscores.season_to_year
season_to_year(s) ==
    IF RangeMatch(s) THEN Group1(s) + 1
    ELSE IF YearMatch(s) THEN Group1(s)
    ELSE Reject

\* dump_boxscores.season_to_year
dump_season_to_year(s) ==
    IF RangeMatch(s) THEN Group1(s) + 1
    ELSE IF YearMatch(s) THEN Group1(s)
    ELSE Reject

\* re.match(r"(\d{4})-(\d{2})", s): anchored at the start only, no white space allowed
PrefixMatch(s) == DigitsAt(s, 1, 4) /\ Len(s) >= 5 /\ s[5] = "-" /\ DigitsAt(s, 6, 2)

\* espn_sync.season_to_year: falls back to 2026, never rejects
espn_season_to_year(s) ==
    IF PrefixMatch(s) THEN DecValue(SubSeq(s, 1, 4)) + 1 ELSE FallbackYear

\* cbb_tracker player-boxscores: season_year from the season option, 2026 when unmatched
cbb_season_year(s) ==
    IF RangeMatch(s) THEN Group1(s) + 1
    ELSE IF YearMatch(s) THEN Group1(s)
    ELSE FallbackYear

\* a season string is given ...
SeasonInit ==
    /\ call \in { [fn |-> "season", arg |-> s, done |-> FALSE] : s \in SeasonStrings }
    /\ RunIdle

\* ... and each of the four derivations is applied to it
SeasonCall ==
    /\ call.fn = "season" /\ ~call.done
    /\ call' = [fn |-> "season", arg |-> call.arg, done |-> TRUE,
                all |-> season_to_year(call.arg),
                dump |-> dump_season_to_year(call.arg),
                espn |-> espn_season_to_year(call.arg),
                cbb |-> cbb_season_year(call.arg)]
    /\ UNCHANGED run_vars

SeasonNext == SeasonCall

SpecSeason == SeasonInit /\ [][SeasonNext]_vars

\* the year the season string stands for: "YYYY-YY" with YY the low two digits of YYYY+1,
\* or a bare "YYYY"; Reject for every other string
SeasonMeaning(s) ==
    IF Len(s) = 7 /\ PrefixMatch(s) /\ DecValue(SubSeq(s, 6, 7)) = (DecValue(SubSeq(s, 1, 4)) + 1) % 100
    THEN DecValue(SubSeq(s, 1, 4)) + 1
    ELSE IF Len(s) = 4 /\ DigitsAt(s, 1, 4) THEN DecValue(s)
    ELSE Reject

\* C11: each season_to_year maps "YYYY-YY" with a matching suffix to YYYY+1, a bare "YYYY"
\* to that integer, and rejects every other string.
C11_SeasonToYearContract ==
    (call.fn = "season" /\ call.done) =>
        /\ call.all = SeasonMeaning(call.arg)
        /\ call.dump = SeasonMeaning(call.arg)
        /\ call.espn = SeasonMeaning(call.arg)

\* C12: the four derivations agree on every season string: the same year, or all reject.
C12_SeasonDerivationsAgree ==
    (call.fn = "season" /\ call.done) =>
        /\ call.all = call.dump
        /\ call.dump = call.espn
        /\ call.espn = call.cbb

(* ================== box-score documents (the row walkers) ============== *)
MaxDocRows == 2

\* the three walkers of a box-score document
Walkers == {"dump", "all", "espn"}

\* team.id of the nesting level that holds the athlete rows
BoxTeams == {DUKE_ID, "2"}

\* athlete.displayName (NULL: missing), athlete.id ("": missing), the points cell and the
\* minutes cell (NULL: absent) of one athlete row
AthleteRows ==
    { [name |-> n, id |-> i, pts |-> c, minutes |-> m] :
        n \in {NULL, "", " ", "A", "B"}, i \in {"", "7"}, c \in Cells, m \in {NULL, "32"} }

NoAthlete == [name |-> NULL, id |-> "", pts |-> Absent, minutes |-> NULL]

\* variant: a display name is used as it came, white space included
raw_name(n) == IF n = NULL THEN "" ELSE n

\* nm = (ath.get("displayName") or "").strip()
display_name(n) == IF n \in {NULL, "", " "} THEN "" ELSE n

\* pid = str(ath.get("id") or nm)
box_pid(a) == IF a.id # "" THEN a.id ELSE display_name(a.name)

\* stat_map.get("minutes", "")
minutes_of(m) == IF m = NULL THEN "" ELSE m

\* the canonical record of one athlete row under a nesting level of team t
box_record(t, a) ==
    [team_id |-> t, player_id |-> box_pid(a), player_name |-> display_name(a.name),
     minutes |-> minutes_of(a.minutes), pts |-> int_cell(a.pts)]

\* rows the walker passes over without a record: no name; in espn_sync also a side that is
\* not Duke's and a name that is not tracked
box_skips(w, t, a) ==
    \/ display_name(a.name) = ""
    \/ w = "espn" /\ (t # DUKE_ID \/ ~tracked(display_name(a.name)))

BoxInit ==
    /\ call \in { [fn |-> "box", who |-> w, phase |-> "teams", readA |-> 0, readB |-> 0,
                   last |-> NoAthlete, lastTeam |-> "", rows |-> << >>] : w \in Walkers }
    /\ RunIdle

\* variant: the players nesting is ignored once the teams nesting held rows
BoxRowByShape ==
    /\ call.fn = "box" /\ call.phase \in {"teams", "players"}
    /\ call.readA + call.readB < MaxDocRows
    /\ \E t \in BoxTeams, a \in AthleteRows :
         LET skip == box_skips(call.who, t, a) \/ (call.phase = "players" /\ call.readA > 0)
             raises == ~skip /\ int_cell_raises(a.pts)
         IN  call' = [call EXCEPT
                        !.readA = IF call.phase = "teams" THEN @ + 1 ELSE @,
                        !.readB = IF call.phase = "players" THEN @ + 1 ELSE @,
                        !.last = a, !.lastTeam = t,
                        !.phase = IF raises THEN "raised" ELSE @,
                        !.rows = IF raises /\ call.who = "dump" THEN << >>
                                 ELSE IF skip \/ raises THEN @
                                 ELSE Append(@, box_record(t, a))]
    /\ UNCHANGED run_vars

\* one athlete row of either nesting: take (dump_boxscores), record_row with parse_row
\* (sync_all_boxscores), the body of handle_rows with upsert_line (espn_sync). int() of a
\* cell that is no number raises out of the walker; dump_boxscores then returns no list.
BoxRow ==
    /\ call.fn = "box" /\ call.phase \in {"teams", "players"}
    /\ call.readA + call.readB < MaxDocRows
    /\ \E t \in BoxTeams, a \in AthleteRows :
         LET skip == box_skips(call.who, t, a)
             raises == ~skip /\ int_cell_raises(a.pts)
         IN  call' = [call EXCEPT
                        !.readA = IF call.phase = "teams" THEN @ + 1 ELSE @,
                        !.readB = IF call.phase = "players" THEN @ + 1 ELSE @,
                        !.last = a, !.lastTeam = t,
                        !.phase = IF raises THEN "raised" ELSE @,
                        !.rows = IF raises /\ call.who = "dump" THEN << >>
                                 ELSE IF skip \/ raises THEN @
                                 ELSE Append(@, box_record(t, a))]
    /\ UNCHANGED run_vars

\* the loop over box["teams"] ends; the loop over box["players"] starts
BoxNextShape ==
    /\ call.fn = "box" /\ call.phase = "teams"
    /\ call' = [call EXCEPT !.phase = "players"]
    /\ UNCHANGED run_vars

\* the loop over box["players"] ends
BoxReturn ==
    /\ call.fn = "box" /\ call.phase = "players"
    /\ call' = [call EXCEPT !.phase = "returned"]
    /\ UNCHANGED run_vars

BoxNext == BoxRow \/ BoxNextShape \/ BoxReturn

SpecBox == BoxInit /\ [][BoxNext]_vars

\* a step that reads one athlete row
BoxReads == call.fn = "box" /\ call'.readA + call'.readB = call.readA + call.readB + 1

\* the row just read is one the walker keeps: named, and for espn_sync on Duke's side and tracked
BoxKept ==
    /\ call'.last.name \in {"A", "B"}
    /\ call.who = "espn" => (call'.lastTeam = DUKE_ID /\ call'.last.name = "A")

C14_NamelessRowSkipped ==
    [][ (BoxReads /\ call'.last.name \in {NULL, "", " "}) =>
            (call'.rows = call.rows /\ call'.phase = call.phase) ]_vars

\* sync_all_boxscores read a nameless row, gave no record for it, and went on to record
\* the next row
C14_Witness ==
    /\ call.fn = "box" /\ call.who = "all"
    /\ call.readA + call.readB = 2 /\ Len(call.rows) = 1
    /\ call.last.name = "A" /\ call.rows[1].player_name = "A" /\ call.phase # "raised"

\* C15: a kept row whose points cell is absent or no number gives a record with 0 points
\* (and minutes "" when absent), and the walk goes on.
C15_MalformedCellDefaults ==
    [][ (BoxReads /\ BoxKept) =>
            /\ call'.phase = call.phase
            /\ Len(call'.rows) = Len(call.rows) + 1
            /\ call'.rows[Len(call'.rows)].pts =
                   (IF call'.last.pts = Absent \/ IntRaises(call'.last.pts) THEN 0
                    ELSE DecValue(call'.last.pts))
            /\ (call'.last.minutes = NULL => call'.rows[Len(call'.rows)].minutes = "")
      ]_vars

(* ===================== sync_all_boxscores.py: fg_pair ================== *)
MaxFgLen == 4

FgChars == {"7", "1", "2", "-", "D", " "}

\* values a "made-attempted" cell can hold: a text, or something that is no text (None, a number)
FgInputs ==
    { [kind |-> "str", text |-> t] : t \in UNION { [1..n -> FgChars] : n \in 0..MaxFgLen } }
      \cup { [kind |-> "other", text |-> << >>] }

\* s.split('-'): the pieces between the separators, one more than there are separators
RECURSIVE split_dash(_)
split_dash(s) ==
    IF \A i \in 1..Len(s) : s[i] # "-" THEN << s >>
    ELSE LET k == CHOOSE i \in 1..Len(s) : s[i] = "-" /\ \A h \in 1..(i - 1) : s[h] # "-"
         IN  << SubSeq(s, 1, k - 1) >> \o split_dash(SubSeq(s, k + 1, Len(s)))

\* str.strip(), which int() applies to its text
RECURSIVE strip_right(_)
strip_right(s) == IF s # << >> /\ IsSpace(s[Len(s)]) THEN strip_right(SubSeq(s, 1, Len(s) - 1)) ELSE s
strip(s) == strip_right(SubSeq(s, SkipSpace(s, 1), Len(s)))

\* int(text): white space around the digits is allowed
int_text_raises(s) == IntRaises(strip(s))
int_text(s) == DecValue(strip(s))

FgZero == [raised |-> FALSE, made |-> 0, att |-> 0]
FgRaised == [raised |-> TRUE, made |-> 0, att |-> 0]

\* the try body: a, b = s.split('-'); return int(a), int(b)
fg_body(x) ==
    IF x.kind # "str" THEN FgRaised
    ELSE LET parts == split_dash(x.text)
         IN  IF Len(parts) # 2 THEN FgRaised
             ELSE IF int_text_raises(parts[1]) \/ int_text_raises(parts[2]) THEN FgRaised
             ELSE [raised |-> FALSE, made |-> int_text(parts[1]), att |-> int_text(parts[2])]

\* variant: the except clause is missing
fg_pair_uncaught(x) == fg_body(x)

\* fg_pair: try ... except: return 0, 0
fg_pair(x) == IF fg_body(x).raised THEN FgZero ELSE fg_body(x)

FgInit ==
    /\ call \in { [fn |-> "fg", arg |-> x, done |-> FALSE] : x \in FgInputs }
    /\ RunIdle

\* parse_row: fgm, fga = fg_pair(m.get("FG", "0-0"))
FgCall ==
    /\ call.fn = "fg" /\ ~call.done
    /\ call' = [fn |-> "fg", arg |-> call.arg, done |-> TRUE, out |-> fg_pair(call.arg)]
    /\ UNCHANGED run_vars

FgNext == FgCall

SpecFg == FgInit /\ [][FgNext]_vars

\* a text that reads as one integer: digits, possibly with white space around them
IsIntegerText(t) ==
    \E i \in 1..Len(t) : \E j \in i..Len(t) :
        /\ \A k \in 1..Len(t) : IF k >= i /\ k <= j THEN IsDigit(t[k]) ELSE IsSpace(t[k])

\* the positions where text t is "a-b" with a and b integers
PairCuts(t) ==
    { k \in 1..Len(t) : /\ t[k] = "-"
                        /\ IsIntegerText(SubSeq(t, 1, k - 1))
                        /\ IsIntegerText(SubSeq(t, k + 1, Len(t))) }

\* C16: fg_pair never raises; on a text "a-b" of two integers around one separator it
\* returns (a, b), and on every other input it returns (0, 0).
C16_FgPair ==
    (call.fn = "fg" /\ call.done) =>
        /\ ~call.out.raised
        /\ IF call.arg.kind = "str" /\ PairCuts(call.arg.text) # {}
           THEN \A k \in PairCuts(call.arg.text) :
                  /\ call.out.made = DecValue(SelectSeq(SubSeq(call.arg.text, 1, k - 1), IsDigit))
                  /\ call.out.att = DecValue(SelectSeq(SubSeq(call.arg.text, k + 1, Len(call.arg.text)), IsDigit))
           ELSE call.out.made = 0 /\ call.out.att = 0

\* fg_pair("7-12") has returned (7, 12)
C16_Witness ==
    /\ call.fn = "fg" /\ call.done
    /\ call.arg.kind = "str" /\ call.arg.text = <<"7", "-", "1", "2">>
    /\ call.out.made = 7 /\ call.out.att = 12

(* ================= properties of the sync runs, continued ============== *)
\* C17: when a run stops on an uncaught error, every players row and every stat line
\* written before that point is in the store afterwards.
C17_NoWrittenRowLost ==
    [][ pc' = "crashed" =>
            (db.players \subseteq disk'.players /\ db.stats \subseteq disk'.stats) ]_vars

\* C19: in espn_sync and sync_all_boxscores, reading an event of the run's season whose
\* state is not the completed one stores its games row, starts no box-score request,
\* adds no stat line and raises nothing.
C19_OpenEventsPersisted ==
    [][ ( /\ entry \in {"espn", "all"} /\ pc = "event" /\ ei <= nEvents
          /\ ev'.state = "pre" /\ ev'.season \in {NullYear, season_year} ) =>
            /\ pc' = "event" /\ ei' = ei + 1
            /\ db'.stats = db.stats
            /\ game_row(ev', season_year) \in db'.games ]_vars

(* ============ an interrupted run followed by a full run ================ *)
MaxRespLen == 4

\* what the provider serves for one team, in the order a run reads it: a schedule event
\* (completed or not), followed by the athlete rows of its box score
RespItems ==
    { [kind |-> "event", state |-> st, id |-> "", pts |-> Absent] : st \in {"post", "pre"} }
      \cup { [kind |-> "row", state |-> "", id |-> i, pts |-> c] :
               i \in {"", "7"}, c \in {Absent, <<"7">>} }

NoItem == [kind |-> "none", state |-> "", id |-> "", pts |-> Absent]

Responses == UNION { [1..n -> RespItems] : n \in 0..MaxRespLen }

\* the event object of a schedule item (one game, listed once or several times)
resp_event(it) ==
    espn_event([id |-> "401", date |-> "2025-11-04", home |-> "Duke", away |-> "UNC",
                type |-> CHOOSE t \in StatusTypes : t.state = it.state, season |-> NullYear])

\* the writes a run performs for the items from position i on, in order. open: the last
\* event read was completed and its box score is being walked. sync_all_boxscores passes
\* over an event that is not completed; espn_sync writes its games row first.
RECURSIVE run_writes(_, _, _, _)
run_writes(who, resp, i, open) ==
    IF i > Len(resp) THEN IF who = "all" THEN << [op |-> "normalize", it |-> NoItem] >> ELSE << >>
    ELSE LET it == resp[i] IN
         IF it.kind = "event"
         THEN (IF it.state = "post" \/ who = "espn" THEN << [op |-> "game", it |-> it] >> ELSE << >>)
                \o run_writes(who, resp, i + 1, it.state = "post")
         ELSE (IF open THEN << [op |-> "player", it |-> it], [op |-> "line", it |-> it] >> ELSE << >>)
                \o run_writes(who, resp, i + 1, open)

\* the whole run: the team row, then the writes of the schedule
run_ops(who, resp) == << [op |-> "team", it |-> NoItem] >> \o run_writes(who, resp, 1, FALSE)

\* one write on the connection's view of a store created by the same entry point
apply_write(who, d, o) ==
    LET pid == IF o.it.id # "" THEN o.it.id ELSE "A" IN
    CASE o.op = "team" ->
           [d EXCEPT !.teams = InsertOrIgnoreTeam(@,
              [team_id |-> DUKE_ID, team_name |-> "Duke Blue Devils", team_slug |-> "duke",
               conference |-> IF who = "all" THEN "ACC" ELSE NULL])]
      [] o.op = "game" ->
           [d EXCEPT !.games = InsertOrReplaceGame(@, game_row(resp_event(o.it), DefaultSeasonYear))]
      [] o.op = "player" ->
           [d EXCEPT !.players = InsertOrIgnorePlayer(@,
              [player_id |-> pid, player_name |-> "A", team_id |-> DUKE_ID], PlayersUnique(who))]
      [] o.op = "line" ->
           [d EXCEPT !.stats = InsertOrReplaceLine(@,
              [player_id |-> pid, game_id |-> "401", pts |-> int_cell(o.it.pts)])]
      [] OTHER ->
           [d EXCEPT !.games = NormalizeStatus(@)]

\* con.commit() follows the write: always in espn_sync; in sync_all_boxscores after the
\* teams row, the games row and the final UPDATE, not after record_row's two INSERTs
write_commits(who, o) == who = "espn" \/ o.op \in {"team", "game", "normalize"}

\* the store after one uninterrupted run on an empty store
RECURSIVE full_run(_, _, _, _)
full_run(who, ops, k, st) ==
    IF k > Len(ops) THEN st
    ELSE LET d == apply_write(who, st.db, ops[k])
         IN  full_run(who, ops, k + 1,
                      [db |-> d, disk |-> IF write_commits(who, ops[k]) THEN d ELSE st.disk])

RestartInit ==
    /\ call \in { [fn |-> "restart", who |-> w, resp |-> r, phase |-> "first", pos |-> 1, cut |-> 0] :
                    w \in {"all", "espn"}, r \in Responses }
    /\ RunIdle

\* the next write of the run
RestartWrite ==
    /\ call.fn = "restart" /\ call.phase \in {"first", "again"}
    /\ call.pos <= Len(run_ops(call.who, call.resp))
    /\ LET o == run_ops(call.who, call.resp)[call.pos]
           d == apply_write(call.who, db, o)
       IN  /\ db' = d
           /\ disk' = IF write_commits(call.who, o) THEN d ELSE disk
    /\ call' = [call EXCEPT !.pos = @ + 1]
    /\ UNCHANGED <<schema, entry, pc, season_year, runs, ti, nTeams, team, ei, nEvents, ev,
                   shape, row, inserted, http, work>>

\* variant: the second run resumes at the write where the first one stopped
RestartResume ==
    /\ call.fn = "restart" /\ call.phase = "first"
    /\ call.pos <= Len(run_ops(call.who, call.resp))
    /\ db' = disk
    /\ call' = [call EXCEPT !.phase = "again", !.cut = call.pos]
    /\ UNCHANGED <<schema, disk, entry, pc, season_year, runs, ti, nTeams, team, ei, nEvents, ev,
                   shape, row, inserted, http, work>>

\* the process is stopped before its next write: the open transaction is lost, and the
\* next run starts at the first team and the first event (nothing records where it stopped)
RestartInterrupt ==
    /\ call.fn = "restart" /\ call.phase = "first"
    /\ call.pos <= Len(run_ops(call.who, call.resp))
    /\ db' = disk
    /\ call' = [call EXCEPT !.phase = "again", !.pos = 1, !.cut = call.pos]
    /\ UNCHANGED <<schema, disk, entry, pc, season_year, runs, ti, nTeams, team, ei, nEvents, ev,
                   shape, row, inserted, http, work>>

\* the run has performed its last write
RestartEnd ==
    /\ call.fn = "restart" /\ call.phase \in {"first", "again"}
    /\ call.pos > Len(run_ops(call.who, call.resp))
    /\ call' = [call EXCEPT !.phase = "done"]
    /\ UNCHANGED run_vars

RestartNext == RestartWrite \/ RestartInterrupt \/ RestartEnd

SpecRestart == RestartInit /\ [][RestartNext]_vars

\* C18: whether or not a first run was interrupted, and wherever, the store after the
\* full run equals the store one uninterrupted run on the same responses leaves.
C18_RestartFromScratch ==
    (call.fn = "restart" /\ call.phase = "done") =>
        /\ disk = full_run(call.who, run_ops(call.who, call.resp), 1,
                           [db |-> EmptyDb, disk |-> EmptyDb]).disk
        /\ db = disk

\* a sync_all_boxscores run was stopped after it had written a stat line it had not yet
\* committed, and the full run after it has finished with that line in the store
C18_Witness ==
    /\ call.fn = "restart" /\ call.phase = "done" /\ call.who = "all"
    /\ call.cut >= 5 /\ disk.stats # {}

(* ================== dump_boxscores.py: resolve_team_id ================= *)
MaxCatalog == 2

\* TEAM_ID_MAP = {"duke": "150"}
TEAM_ID_MAP_KEYS == { <<"d", "u", "k", "e">> }
TEAM_ID_MAP(k) == <<"1", "5", "0">>

\* values of --team / --team-id
ResolveInputs ==
    { <<"1", "5", "0">>,
      <<"2">>,
      <<"1", "5">>,
      <<" ", "1", "5", "0">>,
      <<"d", "u", "k", "e">>,
      <<"D", "u", "k", "e">>,
      <<" ", "D", "U", "K", "E", " ">>,
      <<"d", "u", "k">>,
      <<"a", "u", "b">>,
      <<"A", "u", "b">>,
      << >>,
      <<"x">> }

\* team objects of the catalog response
ResolveCatalogTeams ==
    { [id |-> <<"1", "5", "0">>, displayName |-> <<"D", "u", "k", "e">>, abbreviation |-> <<"D", "U", "K", "E">>, slug |-> <<"d", "u", "k", "e">>],
      [id |-> <<"2">>, displayName |-> <<"A", "u", "b">>, abbreviation |-> << >>, slug |-> <<"a", "u", "b">>],
      [id |-> <<"2", "1", "5">>, displayName |-> <<"D", "u", "k">>, abbreviation |-> << >>, slug |-> << >>] }

ResolveCatalogs == UNION { [1..n -> ResolveCatalogTeams] : n \in 0..MaxCatalog }

\* team object of the TEAM_INFO response
ResolveInfos ==
    { [slug |-> <<"d", "u", "k", "e">>, displayName |-> <<"D", "u", "k", "e">>], [slug |-> << >>, displayName |-> << >>] }

\* str.isdigit(): not empty, digits only
isdigit(s) == s # << >> /\ \A i \in 1..Len(s) : DigitVal(s[i]) >= 0

lower_char(c) ==
    CASE c = "D" -> "d" [] c = "U" -> "u" [] c = "K" -> "k" [] c = "E" -> "e"
      [] c = "A" -> "a" [] c = "B" -> "b" [] OTHER -> c

\* str.lower()
lower_text(s) == [i \in 1..Len(s) |-> lower_char(s[i])]

\* key in fields
contains(f, k) == \E i \in 0..(Len(f) - Len(k)) : SubSeq(f, i + 1, i + Len(k)) = k

\* " ".join([id, displayName, shortDisplayName, abbreviation, location, name]).lower()
catalog_fields(c) ==
    lower_text(c.id \o <<" ">> \o c.displayName \o <<" ">> \o << >> \o <<" ">>
               \o c.abbreviation \o <<" ">> \o << >> \o <<" ">> \o << >>)

\* a or b
or_else(a, b) == IF a # << >> THEN a ELSE b

\* the catalog scan: the first team whose fields contain the key
RECURSIVE catalog_scan(_, _, _)
catalog_scan(cat, key, i) ==
    IF i > Len(cat) THEN [rule |-> "exit", tid |-> << >>, slug |-> << >>]
    ELSE IF contains(catalog_fields(cat[i]), key)
    THEN [rule |-> "catalog", tid |-> cat[i].id,
          slug |-> or_else(cat[i].slug, or_else(cat[i].abbreviation, cat[i].id))]
    ELSE catalog_scan(cat, key, i + 1)

\* slug = info.get("slug") or ... or info.get("displayName") or tid
info_slug(info, tid) == or_else(info.slug, or_else(info.displayName, tid))

\* variant: the catalog is fetched before the rules are tried
resolve_catalog_first(x, info, cat) ==
    LET key == lower_text(strip(x)) IN
    IF isdigit(x)
    THEN [rule |-> "numeric", tid |-> x, slug |-> info_slug(info, x),
          steps |-> <<"TEAMS", "TEAM_INFO">>]
    ELSE IF key \in TEAM_ID_MAP_KEYS
    THEN [rule |-> "alias", tid |-> TEAM_ID_MAP(key), slug |-> info_slug(info, TEAM_ID_MAP(key)),
          steps |-> <<"TEAMS", "TEAM_ID_MAP", "TEAM_INFO">>]
    ELSE [rule |-> catalog_scan(cat, key, 1).rule, tid |-> catalog_scan(cat, key, 1).tid,
          slug |-> catalog_scan(cat, key, 1).slug, steps |-> <<"TEAMS", "TEAM_ID_MAP">>]

\* resolve_team_id; steps: the table lookups and requests made, in order
resolve_team_id(x, info, cat) ==
    LET key == lower_text(strip(x)) IN
    IF isdigit(x)
    THEN [rule |-> "numeric", tid |-> x, slug |-> info_slug(info, x), steps |-> <<"TEAM_INFO">>]
    ELSE IF key \in TEAM_ID_MAP_KEYS
    THEN [rule |-> "alias", tid |-> TEAM_ID_MAP(key), slug |-> info_slug(info, TEAM_ID_MAP(key)),
          steps |-> <<"TEAM_ID_MAP", "TEAM_INFO">>]
    ELSE [rule |-> catalog_scan(cat, key, 1).rule, tid |-> catalog_scan(cat, key, 1).tid,
          slug |-> catalog_scan(cat, key, 1).slug, steps |-> <<"TEAM_ID_MAP", "TEAMS">>]

ResolveInit ==
    /\ call \in { [fn |-> "resolve", arg |-> x, info |-> i, cat |-> c, done |-> FALSE] :
                    x \in ResolveInputs, i \in ResolveInfos, c \in ResolveCatalogs }
    /\ RunIdle

\* main: tid, slug = resolve_team_id(s, args.team_id if args.team_id else args.team)
ResolveCall ==
    /\ call.fn = "resolve" /\ ~call.done
    /\ call' = [call EXCEPT !.done = TRUE] @@
               [out |-> resolve_team_id(call.arg, call.info, call.cat)]
    /\ UNCHANGED run_vars

ResolveNext == ResolveCall

SpecResolve == ResolveInit /\ [][ResolveNext]_vars

\* the input is digits only
PurelyNumeric(x) == Len(x) > 0 /\ \A i \in 1..Len(x) : x[i] \in {"0", "1", "2", "5"}

\* the input, trimmed and in any letter case, is the alias "duke"
IsAlias(x) ==
    \E i \in 1..Len(x) :
        /\ i + 3 <= Len(x)
        /\ x[i] \in {"d", "D"} /\ x[i + 1] \in {"u", "U"} /\ x[i + 2] \in {"k", "K"}
        /\ x[i + 3] \in {"e", "E"}
        /\ \A k \in 1..Len(x) : (k < i \/ k > i + 3) => x[k] = " "

\* C20: the rules apply in order and the first match wins: a purely numeric input is the
\* id, with neither the alias table nor the catalog consulted; otherwise an alias
\* (trimmed, any case) gives the alias id with no catalog request; only otherwise is the
\* catalog requested and scanned.
C20_ResolveRuleOrder ==
    (call.fn = "resolve" /\ call.done) =>
        IF PurelyNumeric(call.arg)
        THEN call.out.tid = call.arg /\ call.out.steps = <<"TEAM_INFO">>
        ELSE IF IsAlias(call.arg)
        THEN call.out.tid = <<"1", "5", "0">> /\ call.out.steps = <<"TEAM_ID_MAP", "TEAM_INFO">>
        ELSE /\ call.out.steps = <<"TEAM_ID_MAP", "TEAMS">>
             /\ call.out.rule \in {"catalog", "exit"}
             /\ call.out.rule = "catalog" =>
                    \E i \in 1..Len(call.cat) : call.out.tid = call.cat[i].id

\* " DUKE " was resolved through the alias table although the catalog lists a team that
\* matches it; "15" was taken as an id although the catalog lists 150 and 215
C20_Witness ==
    /\ call.fn = "resolve" /\ call.done
    /\ Len(call.cat) = 2 /\ call.cat[1].id = <<"2", "1", "5">>
    /\ \/ call.arg = <<" ", "D", "U", "K", "E", " ">> /\ call.out.tid = <<"1", "5", "0">> /\ call.out.rule = "alias"
       \/ call.arg = <<"1", "5">> /\ call.out.tid = <<"1", "5">> /\ call.out.rule = "numeric"

\* the input, trimmed, equals in full and in any letter case one of the entry's id,
\* displayName, shortDisplayName, abbreviation, location, name (an absent field is "")
ExactMatch(c, x) ==
    lower_text(strip(x)) \in
        { lower_text(c.id), lower_text(c.displayName), << >>, lower_text(c.abbreviation),
          << >>, << >> }

\* C21: in the catalog scan an entry matches only when the input equals one of its
\* fields in full (any letter case); an input that is only a part of a field matches
\* nothing, and with no matching entry the resolution fails instead of returning an id.
C21_CatalogExactMatch ==
    (call.fn = "resolve" /\ call.done /\ "TEAMS" \in {call.out.steps[i] : i \in 1..Len(call.out.steps)}) =>
        IF \E i \in 1..Len(call.cat) : ExactMatch(call.cat[i], call.arg)
        THEN /\ call.out.rule = "catalog"
             /\ \E i \in 1..Len(call.cat) :
                    ExactMatch(call.cat[i], call.arg) /\ call.out.tid = call.cat[i].id
        ELSE call.out.rule = "exit"

(* ====================== store properties, continued ==================== *)
\* C22: the status of a completed game is normalized when its games row is written: in
\* every store state, committed or not, mid-run or after an interrupted run, a games row
\* of a completed event holds the one canonical token, never the provider's own string.
C22_StatusNormalizedAtWrite ==
    \A x \in db.games \cup disk.games : Completed(x.status) => x.status = "post"

\* C23: after any sequence of sync runs no two players rows share (player_name, team_id):
\* a player seen once without a provider id and later with one, on the same team, is
\* one player row.
C23_OnePlayerPerNameAndTeam ==
    \A a \in db.players, b \in db.players :
        (a.player_name = b.player_name /\ a.team_id = b.team_id) => a = b

(* ========== startup: cbb_tracker.py, espn_sync.py, generate_report.py ========== *)
MaxLines == 2

\* DB_PATH / DB
DbFile == "cbb_tracker.sqlite"

\* lines of players.txt
WatchLines == { <<"a">>, <<" ", "B">>, <<"#", "a">>, << >> }
WatchFiles == UNION { [1..n -> WatchLines] : n \in 0..MaxLines }

\* player_name values in the store generate_report.py reads
StoredNames == { <<"A">>, <<"A", "B">> }

\* [ln.strip() for ln in ... if ln.strip() and not ln.startswith("#")]
RECURSIVE watch_names(_)
watch_names(f) ==
    IF f = << >> THEN << >>
    ELSE IF strip(Head(f)) # << >> /\ Head(Head(f)) # "#"
         THEN <<strip(Head(f))>> \o watch_names(Tail(f))
         ELSE watch_names(Tail(f))

\* load_watchlist: an absent players.txt is an empty watchlist
load_watchlist(present, f) == IF present THEN watch_names(f) ELSE << >>

\* WHERE lower(player_name)=lower(?), else WHERE lower(player_name) LIKE '%name%'
report_rows(P, name) ==
    IF \E n \in P : lower_text(n) = lower_text(name)
    THEN {n \in P : lower_text(n) = lower_text(name)}
    ELSE {n \in P : contains(lower_text(n), lower_text(name))}

StartupCalls ==
    { [fn |-> "startup", who |-> w, present |-> b, lines |-> << >>, store |-> st,
       players |-> {}, pc |-> "start", code |-> 0, requests |-> 0, made |-> {},
       names |-> << >>, blocks |-> << >>]
        : w \in {"cbb", "espn"}, b \in BOOLEAN, st \in {"none", "cbb", "espn", "all"} }
    \cup
    { [fn |-> "startup", who |-> "report", present |-> b, lines |-> f, store |-> st,
       players |-> P, pc |-> "start", code |-> 0, requests |-> 0, made |-> {},
       names |-> << >>, blocks |-> << >>]
        : b \in BOOLEAN, f \in WatchFiles, st \in {"none", "cbb", "espn", "all"},
          P \in SUBSET StoredNames }

StartupInit ==
    /\ call \in {c \in StartupCalls :
                   /\ (~c.present => c.lines = << >>)
                   /\ (c.store = "none" => c.players = {})}
    /\ RunIdle

\* cbb_tracker sync: cfg = load_cfg(); espn_sync main: cfg = yaml.safe_load(open(CFG))
StartupLoad ==
    /\ call.fn = "startup" /\ call.who \in {"cbb", "espn"} /\ call.pc = "start"
    /\ call' = IF call.present THEN [call EXCEPT !.pc = "db"]
               ELSE [call EXCEPT !.pc = "exited", !.code = 1]
    /\ UNCHANGED run_vars

\* con, cur = db(): connect, CREATE TABLE IF NOT EXISTS, commit
StartupDb ==
    /\ call.fn = "startup" /\ call.pc = "db"
    /\ call' = [call EXCEPT !.pc = "request", !.store = ensure_schema(@, call.who),
                            !.made = @ \cup {DbFile}]
    /\ UNCHANGED run_vars

\* the first request: schools_index() / j(TEAM_INFO...)
StartupRequest ==
    /\ call.fn = "startup" /\ call.pc = "request"
    /\ call' = [call EXCEPT !.pc = "running", !.requests = @ + 1]
    /\ UNCHANGED run_vars

\* generate_report.py module level: OUT.mkdir(parents=True, exist_ok=True)
ReportImport ==
    /\ call.fn = "startup" /\ call.who = "report" /\ call.pc = "start"
    /\ call' = [call EXCEPT !.pc = "connect", !.made = @ \cup {"site"}]
    /\ UNCHANGED run_vars

\* main: sqlite3.connect(DB); names = load_watchlist()
ReportConnect ==
    /\ call.fn = "startup" /\ call.who = "report" /\ call.pc = "connect"
    /\ call' = [call EXCEPT !.pc = "count",
                            !.names = load_watchlist(call.present, call.lines),
                            !.made = IF call.store = "none" THEN @ \cup {DbFile} ELSE @]
    /\ UNCHANGED run_vars

\* games_post = q(con, "SELECT COUNT(*) ... FROM games WHERE season_year=? ...")
ReportCount ==
    /\ call.fn = "startup" /\ call.who = "report" /\ call.pc = "count"
    /\ call' = IF GamesHasSeasonYear(call.store) THEN [call EXCEPT !.pc = "names"]
               ELSE [call EXCEPT !.pc = "exited", !.code = 1]
    /\ UNCHANGED run_vars

\* for name in names: one block per matching player, or the "Not found" block
ReportName ==
    /\ call.fn = "startup" /\ call.who = "report" /\ call.pc = "names"
    /\ Len(call.blocks) < Len(call.names)
    /\ LET name == call.names[Len(call.blocks) + 1] IN
       call' = [call EXCEPT !.blocks = Append(@, report_rows(call.players, name))]
    /\ UNCHANGED run_vars

\* (OUT / "index.html").write_text(...); (OUT / "summary.txt").write_text(...)
ReportWrite ==
    /\ call.fn = "startup" /\ call.who = "report" /\ call.pc = "names"
    /\ Len(call.blocks) = Len(call.names)
    /\ call' = [call EXCEPT !.pc = "exited", !.code = 0,
                            !.made = @ \cup {"site/index.html", "site/summary.txt"}]
    /\ UNCHANGED run_vars

StartupNext ==
    \/ StartupLoad \/ StartupDb \/ StartupRequest
    \/ ReportImport \/ ReportConnect \/ ReportCount \/ ReportName \/ ReportWrite

SpecStartup == StartupInit /\ [][StartupNext]_vars

\* C24: with the watchlist/configuration file missing, every entry point that reads it
\* stops at startup with a nonzero exit, before any network request and before any
\* store write or output file.
C24_MissingConfigStopsRun ==
    (call.fn = "startup" /\ ~call.present) =>
        /\ call.requests = 0
        /\ call.made \cap {DbFile, "site/index.html", "site/summary.txt"} = {}
        /\ call.pc \notin {"running", "names"}
        /\ call.pc = "exited" => call.code # 0

(* ======== the delay between box-score requests: sync_all_boxscores.py, espn_sync.py ======== *)
MaxSchedLen == 3

\* --sleep of sync_all_boxscores.py in milliseconds (default 0.05 s); time.sleep(0.02) of espn_sync.py
AllSleepMs == {50, 100}
EspnSleepMs == 20

\* one schedule event: its state, and how the EVENT_SUM request for it ends
SchedItems == { [state |-> st, box |-> b] : st \in {"post", "pre"}, b \in {"ok", "fail"} }
Schedules == UNION { [1..n -> SchedItems] : n \in 0..MaxSchedLen }

ThrottleInit ==
    /\ call \in { [fn |-> "throttle", who |-> w, sched |-> sc, delay |-> d, ei |-> 1,
                   pc |-> "event", log |-> << >>]
                    : w \in {"all"}, sc \in Schedules, d \in AllSleepMs }
               \cup
                { [fn |-> "throttle", who |-> "espn", sched |-> sc, delay |-> EspnSleepMs, ei |-> 1,
                   pc |-> "event", log |-> << >>] : sc \in Schedules }
    /\ RunIdle

\* for ev in events: ... if state != "post": continue
ThrottleEvent ==
    /\ call.fn = "throttle" /\ call.pc = "event"
    /\ call' = IF call.ei > Len(call.sched) THEN [call EXCEPT !.pc = "done"]
               ELSE IF call.sched[call.ei].state # "post" THEN [call EXCEPT !.ei = @ + 1]
               ELSE [call EXCEPT !.pc = "box"]
    /\ UNCHANGED run_vars

\* try: summ = j(EVENT_SUM...) except Exception: print; continue
ThrottleBox ==
    /\ call.fn = "throttle" /\ call.pc = "box"
    /\ call' = IF call.sched[call.ei].box = "fail"
               THEN [call EXCEPT !.log = Append(@, [op |-> "box", ev |-> call.ei, ms |-> 0]),
                                 !.ei = @ + 1, !.pc = "event"]
               ELSE [call EXCEPT !.log = Append(@, [op |-> "box", ev |-> call.ei, ms |-> 0]),
                                 !.pc = "sleep"]
    /\ UNCHANGED run_vars

\* the rows of the box score, then time.sleep(args.sleep) / time.sleep(0.02)
ThrottleSleep ==
    /\ call.fn = "throttle" /\ call.pc = "sleep"
    /\ call' = [call EXCEPT !.log = Append(@, [op |-> "sleep", ev |-> call.ei, ms |-> call.delay]),
                            !.ei = @ + 1, !.pc = "event"]
    /\ UNCHANGED run_vars

ThrottleNext == ThrottleEvent \/ ThrottleBox \/ ThrottleSleep

SpecThrottle == ThrottleInit /\ [][ThrottleNext]_vars

\* C25: in a bulk run the delay occurs between every two consecutive box-score requests,
\* also after a request that failed: no event is requested twice, every delay is the
\* configured one, and no request directly follows another request.
C25_DelayBetweenBoxRequests ==
    call.fn = "throttle" =>
        /\ \A i \in 1..Len(call.log), k \in 1..Len(call.log) :
               (call.log[i].op = "box" /\ call.log[k].op = "box" /\ call.log[i].ev = call.log[k].ev)
                   => i = k
        /\ \A i \in 1..Len(call.log) : call.log[i].op = "sleep" => call.log[i].ms = call.delay
        /\ \A i \in 1..(Len(call.log) - 1) :
               call.log[i].op = "box" => call.log[i + 1].op = "sleep"

(* ============== sync_all_boxscores.py: the totals of the [done] line ============== *)
MaxFetched == 5

\* athlete ids of a box score
TotalsPids == {"7", "8"}

\* total_rows = total_games = 0, before the first team; games, lines: the keys of the
\* games rows and stat rows the run has written; n: teams, events and rows read so far
TotalsInit ==
    /\ call = [fn |-> "totals", pc |-> "team", total_rows |-> 0, total_games |-> 0,
               completed |-> 0, inserted |-> 0, gid |-> "", games |-> {}, lines |-> {}, n |-> 0]
    /\ RunIdle

\* for i, (tid, ...) in enumerate(teams, 1): teams row; schedule request (continue when
\* it fails); completed = 0; inserted = 0
TotalsTeam ==
    /\ call.fn = "totals" /\ call.pc = "team" /\ call.n < MaxFetched
    /\ \E sched \in {"ok", "fail"} :
         call' = IF sched = "fail" THEN [call EXCEPT !.n = @ + 1]
                 ELSE [call EXCEPT !.n = @ + 1, !.completed = 0, !.inserted = 0, !.pc = "event"]
    /\ UNCHANGED run_vars

\* for ev in events: state and season filters; games row; summary request (continue
\* when it fails)
TotalsEvent ==
    /\ call.fn = "totals" /\ call.pc = "event" /\ call.n < MaxFetched
    /\ \E e \in EspnEvents, box \in {"ok", "fail"} :
         LET g == espn_event(e) IN
         call' = IF g.state # "post" \/ SeasonMismatch(g, DefaultSeasonYear)
                 THEN [call EXCEPT !.n = @ + 1]
                 ELSE [call EXCEPT !.n = @ + 1, !.gid = g.game_id, !.games = @ \cup {g.game_id},
                                   !.pc = IF box = "ok" THEN "rows" ELSE "event"]
    /\ UNCHANGED run_vars

\* record_row for one named athlete row of either nesting: the two INSERTs; inserted += 1
TotalsRow ==
    /\ call.fn = "totals" /\ call.pc = "rows" /\ call.n < MaxFetched
    /\ \E pid \in TotalsPids :
         call' = [call EXCEPT !.n = @ + 1, !.lines = @ \cup {<<pid, call.gid>>},
                              !.inserted = @ + 1]
    /\ UNCHANGED run_vars

\* after the two nestings: completed += 1; time.sleep
TotalsEventDone ==
    /\ call.fn = "totals" /\ call.pc = "rows"
    /\ call' = [call EXCEPT !.completed = @ + 1, !.pc = "event"]
    /\ UNCHANGED run_vars

\* after the last event of a team: total_rows += inserted; total_games += completed
TotalsTeamDone ==
    /\ call.fn = "totals" /\ call.pc = "event"
    /\ call' = [call EXCEPT !.total_rows = @ + call.inserted,
                            !.total_games = @ + call.completed, !.pc = "team"]
    /\ UNCHANGED run_vars

\* print(f"[done] games inserted: {total_games}, player lines inserted: {total_rows}")
TotalsReport ==
    /\ call.fn = "totals" /\ call.pc = "team"
    /\ call' = [call EXCEPT !.pc = "done"]
    /\ UNCHANGED run_vars

TotalsNext ==
    \/ TotalsTeam \/ TotalsEvent \/ TotalsRow \/ TotalsEventDone \/ TotalsTeamDone
    \/ TotalsReport

SpecTotals == TotalsInit /\ [][TotalsNext]_vars

\* C26: at the end of a sync_all_boxscores run "games inserted" is the number of games
\* rows the run wrote and "player lines inserted" the number of distinct
\* (player_id, game_id) stat rows it wrote.
C26_TotalsMatchStore ==
    (call.fn = "totals" /\ call.pc = "done") =>
        /\ call.total_games = Cardinality(call.games)
        /\ call.total_rows = Cardinality(call.lines)

(* ======================= the schema of a shared store ====================== *)
\* C27: the schema does not depend on which entry point created the store: whatever
\* runs came before, the columns the running entry point writes (teams.conference,
\* games.season_year) exist and UNIQUE(player_name, team_id) is in force on players.
C27_SchemaIndependentOfCreator ==
    schema # "none" =>
        /\ (entry = "all" /\ pc \notin Ended) =>
               (TeamsHasConference(schema) /\ GamesHasSeasonYear(schema))
        /\ (entry = "espn" /\ pc \notin Ended) => GamesHasSeasonYear(schema)
        /\ PlayersUnique(schema)

====
